---- MODULE Spec2Model ----
(***************************************************************************)
(* Worklist dataflow engine of src/src/dataflow.py: the variable           *)
(* classifier (is_definition), the definition index, the gen/kill builder  *)
(* and the generic driver DataFlowAlgorithm.__call__ instantiated by       *)
(* PossiblyReachingDefinitions (forward) and PossibleReachableReferences   *)
(* (backward).                                                             *)
(***************************************************************************)
EXTENDS Integers, Sequences, FiniteSets, TLC

\* ------------------------------------------------------------------------
\* Bounds of the explored inputs
\* ------------------------------------------------------------------------

\* number of control-flow nodes of an explored CFG
NumNodes == 3

\* largest number of control-flow edges of an explored CFG
MaxEdges == 3

\* largest number of calls made on one analysis object
MaxCalls == 2

\* ------------------------------------------------------------------------
\* Node universe.  Control-flow nodes are 1..NumNodes; four further node ids
\* hold the syntax context that is_definition inspects.
\* ------------------------------------------------------------------------

CtlNodes == 1..NumNodes

ChildNode == NumNodes + 1

GrandChildNode == NumNodes + 2

ParentNode == NumNodes + 3

OtherChildNode == NumNodes + 4

AllNodes == 1..(NumNodes + 4)

\* Ascending sequence of the elements of a set of node ids
SortedSeq(S) ==
    [i \in 1..Cardinality(S) |->
        CHOOSE x \in S : Cardinality({y \in S : y < x}) = i - 1]

\* cfg.get_node_ids(): the node ids 1, 2, ... in ascending order
get_node_ids(g) == [i \in AllNodes |-> i]

\* cfg.get_type(nid)
get_type(g, nid) == g.type[nid]

\* cfg.get_image(nid)
get_image(g, nid) == g.image[nid]

\* cfg.get_children(nid): ordered structural children
get_children(g, nid) == g.children[nid]

\* cfg.get_parents(nid): ordered structural parents
get_parents(g, nid) == g.parents[nid]

\* cfg.get_any_children(nid): control-flow successors
get_any_children(g, nid) == SortedSeq(g.succ[nid])

\* cfg.get_any_parents(nid): control-flow predecessors
get_any_parents(g, nid) == SortedSeq({m \in AllNodes : nid \in g.succ[m]})

\* ------------------------------------------------------------------------
\* Variable classifier (dataflow.py lines 8-45)
\* ------------------------------------------------------------------------

\* outcome of a Python call that raised IndexError (seq[0] on an empty list)
IndexError == "IndexError"

\* "MemberDeclaration" in tag: the substring test, over the tag vocabulary
contains_MemberDeclaration(tag) ==
    tag \in {"MemberDeclaration", "FieldMemberDeclaration", "MethodMemberDeclaration"}

\* is_definition: the five list elements are all evaluated before any(),
\* so each [0] subscript raises on an empty list whatever the others give.
is_definition(g, nid) ==
    LET ch == get_children(g, nid)
        pa == get_parents(g, nid)
    IN IF Len(ch) = 0 THEN IndexError
       ELSE IF Len(get_children(g, ch[1])) = 0 THEN IndexError
       ELSE IF Len(pa) = 0 THEN IndexError
       ELSE IF \/ get_type(g, ch[1]) = "ValueParameter"
               \/ get_type(g, get_children(g, ch[1])[1]) = "OptValueParameter"
               \/ (get_type(g, ch[1]) = "BinOP" /\ get_image(g, ch[1]) = "=")
               \/ contains_MemberDeclaration(get_type(g, pa[1]))
               \/ get_type(g, pa[1]) = "Global"
            THEN "True" ELSE "False"

\* yield_all_vars
yield_all_vars(g) == {nid \in AllNodes : get_type(g, nid) = "Variable"}

\* True when iterating yield_all_defs / yield_all_refs raises
classify_raises(g) == \E nid \in yield_all_vars(g) : is_definition(g, nid) = IndexError

\* yield_all_defs
yield_all_defs(g) == {nid \in yield_all_vars(g) : is_definition(g, nid) = "True"}

\* yield_all_refs
yield_all_refs(g) == {nid \in yield_all_vars(g) : is_definition(g, nid) = "False"}

\* get_key that leaves the variable name out of the key
get_key_scope_only(g, nid) == <<g.var_scope[nid], "">>

\* get_key
get_key(g, nid) == <<g.var_scope[nid], g.var_id[nid]>>

\* ------------------------------------------------------------------------
\* defaultdict(set): a function on the keys touched so far
\* ------------------------------------------------------------------------

\* a map created with an empty set for every node id
FullDict == [k \in AllNodes |-> {}]

\* defaultdict(set)()
EmptyDict == [k \in {} |-> {}]

\* value of d[k] (the default set() when k is missing)
Get(d, k) == IF k \in DOMAIN d THEN d[k] ELSE {}

\* d[k] = v
Put(d, k, v) == [x \in (DOMAIN d) \cup {k} |-> IF x = k THEN v ELSE d[x]]

\* the side effect of reading d[k]: a missing key is inserted with set()
Touch(d, k) == Put(d, k, Get(d, k))

\* ------------------------------------------------------------------------
\* Definition index and gen/kill builder (dataflow.py lines 62-79, 129-133,
\* 164-168)
\* ------------------------------------------------------------------------

\* the two concrete analyses
PRD == "PossiblyReachingDefinitions"

PRR == "PossibleReachableReferences"

\* build_defs: variable key -> set of its definition nodes
build_defs(g) ==
    [key \in {get_key(g, d) : d \in yield_all_defs(g)} |->
        {d \in yield_all_defs(g) : get_key(g, d) = key}]

\* build_gen that generates a fact at every Variable node
PRD_build_gen_all_vars(g) == [nid \in yield_all_vars(g) |-> {nid}]

\* PossiblyReachingDefinitions.build_gen
PRD_build_gen(g) == [nid \in yield_all_defs(g) |-> {nid}]

\* build_gen that generates a fact at every Variable node
PRR_build_gen_all_vars(g) == [nid \in yield_all_vars(g) |-> {nid}]

\* PossibleReachableReferences.build_gen
PRR_build_gen(g) == [nid \in yield_all_refs(g) |-> {nid}]

\* build_gen of analysis a
build_gen(a, g) == IF a = PRD THEN PRD_build_gen(g) ELSE PRR_build_gen(g)

\* build_kill that does not subtract the generating nodes
build_kill_no_subtraction(g, defs, gen) ==
    [nid \in DOMAIN gen |->
        UNION {Get(defs, get_key(g, var_nid)) : var_nid \in gen[nid]}]

\* build_kill: kill_dict[nid] |= all_defs[key] - var_nids, for each generated var_nid
build_kill(g, defs, gen) ==
    [nid \in DOMAIN gen |->
        UNION {Get(defs, get_key(g, var_nid)) \ gen[nid] : var_nid \in gen[nid]}]

\* all_defs after build_kill: reading all_defs[key] inserts a missing key
defs_after_kill(g, defs, gen) ==
    [key \in (DOMAIN defs) \cup {get_key(g, v) : v \in UNION {gen[n] : n \in DOMAIN gen}} |->
        Get(defs, key)]

\* ------------------------------------------------------------------------
\* Hooks of the two analyses (dataflow.py lines 135-160, 170-195).  s is the
\* record of the object's fields.
\* ------------------------------------------------------------------------

\* apply_flow_eq that does not subtract the kill set
PRD_apply_flow_eq_no_kill(s, nid) ==
    [s EXCEPT !.gen_dict = Touch(@, nid),
              !.in_dict = Touch(@, nid),
              !.kill_dict = Touch(@, nid),
              !.out_dict = Put(@, nid, Get(s.gen_dict, nid) \cup Get(s.in_dict, nid))]

\* PossiblyReachingDefinitions.apply_flow_eq
PRD_apply_flow_eq(s, nid) ==
    [s EXCEPT !.gen_dict = Touch(@, nid),
              !.in_dict = Touch(@, nid),
              !.kill_dict = Touch(@, nid),
              !.out_dict = Put(@, nid, Get(s.gen_dict, nid)
                                        \cup (Get(s.in_dict, nid) \ Get(s.kill_dict, nid)))]

\* PossibleReachableReferences.apply_flow_eq
PRR_apply_flow_eq(s, nid) ==
    [s EXCEPT !.gen_dict = Touch(@, nid),
              !.out_dict = Touch(@, nid),
              !.kill_dict = Touch(@, nid),
              !.in_dict = Put(@, nid, Get(s.gen_dict, nid)
                                       \cup (Get(s.out_dict, nid) \ Get(s.kill_dict, nid)))]

\* can_propagate that compares the out set with the empty set only
PRD_can_propagate_nonempty(s, nid, next_nid) == Get(s.out_dict, nid) # {}

\* PossiblyReachingDefinitions.can_propagate
PRD_can_propagate(s, nid, next_nid) ==
    (Get(s.out_dict, nid) \ Get(s.in_dict, next_nid)) # {}

\* PossibleReachableReferences.can_propagate
PRR_can_propagate(s, nid, next_nid) ==
    (Get(s.in_dict, nid) \ Get(s.out_dict, next_nid)) # {}

\* the dictionary reads of can_propagate (both maps are subscripted)
touch_can_propagate(a, s, nid, next_nid) ==
    IF a = PRD
    THEN [s EXCEPT !.out_dict = Touch(@, nid), !.in_dict = Touch(@, next_nid)]
    ELSE [s EXCEPT !.in_dict = Touch(@, nid), !.out_dict = Touch(@, next_nid)]

\* PossiblyReachingDefinitions.propagate
PRD_propagate(s, nid, next_nid) ==
    [s EXCEPT !.out_dict = Touch(@, nid),
              !.in_dict = Put(@, next_nid, Get(s.in_dict, next_nid) \cup Get(s.out_dict, nid))]

\* PossibleReachableReferences.propagate
PRR_propagate(s, nid, next_nid) ==
    [s EXCEPT !.in_dict = Touch(@, nid),
              !.out_dict = Put(@, next_nid, Get(s.out_dict, next_nid) \cup Get(s.in_dict, nid))]

\* PossiblyReachingDefinitions.next_nodes
PRD_next_nodes(g, nid) == get_any_children(g, nid)

\* PossibleReachableReferences.next_nodes
PRR_next_nodes(g, nid) == get_any_parents(g, nid)

\* get_entry_node that compares with the tag of get_exit_node
boundary_type_exit(a) == "Exit"

\* the type tag get_entry_node / get_exit_node select
boundary_type(a) == IF a = PRD THEN "Entry" ELSE "Exit"

\* get_entry_node / get_exit_node resumed at position cursor of node_ids:
\* the index of the next boundary node, 0 when the generator is exhausted
next_boundary(a, g, cursor) ==
    LET ids == get_node_ids(g)
        hits == {i \in cursor..Len(ids) : get_type(g, ids[i]) = boundary_type(a)}
    IN IF hits = {} THEN 0 ELSE CHOOSE i \in hits : \A j \in hits : i <= j

\* pre_loop_init up to its yield, for boundary node nid
pre_loop_init(a, s, nid) ==
    IF a = PRD
    THEN [s EXCEPT !.in_dict = Put(@, nid, {}),
                   !.visited = @ \cup {nid},
                   !.worklist = Append(@, nid)]
    ELSE [s EXCEPT !.out_dict = Put(@, nid, {}),
                   !.visited = @ \cup {nid},
                   !.worklist = Append(@, nid)]

\* ------------------------------------------------------------------------
\* The driver DataFlowAlgorithm.__call__ (dataflow.py lines 101-125)
\* ------------------------------------------------------------------------

\* lines 118-123 without the append for a neighbour visited before
visit_next_no_requeue(a, s, nid, next_nid) ==
    LET push(t) == [t EXCEPT !.worklist = Append(@, next_nid),
                             !.visited = @ \cup {next_nid}]
        prop(t) == IF a = PRD THEN PRD_propagate(t, nid, next_nid)
                   ELSE PRR_propagate(t, nid, next_nid)
    IN IF next_nid \notin s.visited
       THEN push(prop(s))
       ELSE LET t == touch_can_propagate(a, s, nid, next_nid)
            IN IF (IF a = PRD THEN PRD_can_propagate(t, nid, next_nid)
                   ELSE PRR_can_propagate(t, nid, next_nid))
               THEN prop(t)
               ELSE t

\* lines 118-123 without marking the pushed neighbour visited
visit_next_no_visited(a, s, nid, next_nid) ==
    LET push(t) == [t EXCEPT !.worklist = Append(@, next_nid)]
        prop(t) == IF a = PRD THEN PRD_propagate(t, nid, next_nid)
                   ELSE PRR_propagate(t, nid, next_nid)
    IN IF next_nid \notin s.visited
       THEN push(prop(s))
       ELSE LET t == touch_can_propagate(a, s, nid, next_nid)
            IN IF (IF a = PRD THEN PRD_can_propagate(t, nid, next_nid)
                   ELSE PRR_can_propagate(t, nid, next_nid))
               THEN push(prop(t))
               ELSE t

\* lines 118-123: one iteration of the for loop over next_nodes
visit_next(a, s, nid, next_nid) ==
    LET push(t) == [t EXCEPT !.worklist = Append(@, next_nid),
                             !.visited = @ \cup {next_nid}]
        prop(t) == IF a = PRD THEN PRD_propagate(t, nid, next_nid)
                   ELSE PRR_propagate(t, nid, next_nid)
    IN IF next_nid \notin s.visited
       THEN push(prop(s))
       ELSE LET t == touch_can_propagate(a, s, nid, next_nid)
            IN IF (IF a = PRD THEN PRD_can_propagate(t, nid, next_nid)
                   ELSE PRR_can_propagate(t, nid, next_nid))
               THEN push(prop(t))
               ELSE t

\* lines 117-123: the for loop, from position i of the neighbour list (the
\* fields after one neighbour are computed once, then the rest of the loop)
RECURSIVE for_next(_, _, _, _, _)
for_next(a, s, nid, nexts, i) ==
    IF i > Len(nexts) THEN s
    ELSE CHOOSE r \in {for_next(a, t, nid, nexts, i + 1) :
                          t \in {visit_next(a, s, nid, nexts[i])}} : TRUE

\* lines 115-123 reading worklist[i] without removing it
loop_iteration_no_pop(a, g, s, i) ==
    LET nid == s.worklist[i]
        eq == IF a = PRD THEN PRD_apply_flow_eq(s, nid)
              ELSE PRR_apply_flow_eq(s, nid)
        nexts == IF a = PRD THEN PRD_next_nodes(g, nid) ELSE PRR_next_nodes(g, nid)
    IN CHOOSE r \in {for_next(a, t, nid, nexts, 1) : t \in {eq}} : TRUE

\* lines 115-123: one iteration of the while loop, popping position i of the
\* worklist (list.pop() pops the last position)
loop_iteration(a, g, s, i) ==
    LET nid == s.worklist[i]
        popped == [s EXCEPT !.worklist =
                      SubSeq(@, 1, i - 1) \o SubSeq(@, i + 1, Len(@))]
        eq == IF a = PRD THEN PRD_apply_flow_eq(popped, nid)
              ELSE PRR_apply_flow_eq(popped, nid)
        nexts == IF a = PRD THEN PRD_next_nodes(g, nid) ELSE PRR_next_nodes(g, nid)
    IN CHOOSE r \in {for_next(a, t, nid, nexts, 1) : t \in {eq}} : TRUE

\* ------------------------------------------------------------------------
\* Explored CFGs.  A control-flow node is an Entry node, an Exit node, the
\* target of an assignment to x or to y (a definition), or a use of x (a
\* reference).  Every Variable node has a child, a grandchild and a parent,
\* as the CFG adapter builds them.
\* ------------------------------------------------------------------------

Kinds == {"Entry", "Exit", "DefX", "DefY", "RefX"}

EdgeSets == {E \in SUBSET (CtlNodes \X CtlNodes) : Cardinality(E) <= MaxEdges}

\* the CFG whose control-flow nodes have the kinds kind[n] and the edges E:
\* ChildNode is an assignment BinOP, OtherChildNode an addition BinOP
make_cfg(kind, E) ==
    [type |-> [n \in AllNodes |->
                 IF n \in CtlNodes
                 THEN (IF kind[n] \in {"Entry", "Exit"} THEN kind[n] ELSE "Variable")
                 ELSE IF n \in {ChildNode, OtherChildNode} THEN "BinOP"
                 ELSE IF n = GrandChildNode THEN "Literal"
                 ELSE "Block"],
     image |-> [n \in AllNodes |->
                 IF n = ChildNode THEN "="
                 ELSE IF n = OtherChildNode THEN "+"
                 ELSE IF n \in CtlNodes /\ kind[n] \in {"DefX", "RefX"} THEN "x"
                 ELSE IF n \in CtlNodes /\ kind[n] = "DefY" THEN "y"
                 ELSE ""],
     children |-> [n \in AllNodes |->
                 IF n \in CtlNodes /\ kind[n] \in {"DefX", "DefY"} THEN <<ChildNode>>
                 ELSE IF n \in CtlNodes /\ kind[n] = "RefX" THEN <<OtherChildNode>>
                 ELSE IF n \in {ChildNode, OtherChildNode} THEN <<GrandChildNode>>
                 ELSE <<>>],
     parents |-> [n \in AllNodes |->
                 IF n \in CtlNodes /\ kind[n] \in {"DefX", "DefY", "RefX"}
                 THEN <<ParentNode>> ELSE <<>>],
     succ |-> [n \in AllNodes |-> {m \in CtlNodes : <<n, m>> \in E}],
     var_scope |-> [n \in AllNodes |->
                 IF n \in CtlNodes /\ kind[n] \in {"DefX", "DefY", "RefX"}
                 THEN "global" ELSE ""],
     var_id |-> [n \in AllNodes |->
                 IF n \in CtlNodes /\ kind[n] \in {"DefX", "RefX"} THEN "x"
                 ELSE IF n \in CtlNodes /\ kind[n] = "DefY" THEN "y"
                 ELSE ""]]

\* ------------------------------------------------------------------------
\* State
\* ------------------------------------------------------------------------

VARIABLES
    cfg,        \* the CFG passed to the call (self.cfg)
    analysis,   \* the class of the called object: PRD or PRR
    pc,         \* position of the call
    all_defs,   \* self.all_defs
    gen_dict,   \* self.gen_dict
    kill_dict,  \* self.kill_dict
    in_dict,    \* self.in_dict
    out_dict,   \* self.out_dict
    visited,    \* self.visited
    worklist,   \* self.worklist
    cursor,     \* position of the pre_loop_init generator in node_ids
    ret,        \* the value returned
    calls,      \* number of calls made on the object so far
    in_obj,     \* identity of the map object self.in_dict names (0: none)
    out_obj,    \* identity of the map object self.out_dict names (0: none)
    heap,       \* the map objects self no longer names: identity -> value
    pushes      \* per node, the appends to the worklist since the last seeding

vars == <<cfg, analysis, pc, all_defs, gen_dict, kill_dict, in_dict, out_dict,
          visited, worklist, cursor, ret, calls, in_obj, out_obj, heap, pushes>>

\* the fields the hooks read and write, as one record
Fields ==
    [in_dict |-> in_dict, out_dict |-> out_dict, gen_dict |-> gen_dict,
     kill_dict |-> kill_dict, visited |-> visited, worklist |-> worklist]

\* the fields take the values of record s in the next state
SetFields(s) ==
    /\ in_dict' = s.in_dict
    /\ out_dict' = s.out_dict
    /\ gen_dict' = s.gen_dict
    /\ kill_dict' = s.kill_dict
    /\ visited' = s.visited
    /\ worklist' = s.worklist

\* nothing was returned yet: no map object, no value
NoRet == [in_dict |-> EmptyDict, out_dict |-> EmptyDict, in_id |-> 0, out_id |-> 0]

\* the object before the call
NoCall ==
    /\ pc = "start"
    /\ all_defs = EmptyDict
    /\ gen_dict = EmptyDict
    /\ kill_dict = EmptyDict
    /\ in_dict = EmptyDict
    /\ out_dict = EmptyDict
    /\ visited = {}
    /\ worklist = <<>>
    /\ cursor = 1
    /\ ret = NoRet
    /\ calls = 0
    /\ in_obj = 0
    /\ out_obj = 0
    /\ heap = EmptyDict
    /\ pushes = [n \in AllNodes |-> 0]

\* the CFG field before the first call: the object holds no graph
NoCfg ==
    [type |-> [n \in AllNodes |-> "unset"],
     image |-> [n \in AllNodes |-> ""],
     children |-> [n \in AllNodes |-> <<>>],
     parents |-> [n \in AllNodes |-> <<>>],
     succ |-> [n \in AllNodes |-> {}],
     var_scope |-> [n \in AllNodes |-> ""],
     var_id |-> [n \in AllNodes |-> ""]]

\* an object of either analysis class, constructed and not yet called
Init ==
    /\ cfg = NoCfg
    /\ analysis \in {PRD, PRR}
    /\ NoCall

\* defaultdict(set) that clears and keeps the map object self already names
alloc_keep(cur, count) == IF cur = 0 THEN count + 1 ELSE cur

\* lines 108-109, defaultdict(set): the identity of the new map object, when
\* self names the object cur and count objects were created before
alloc(cur, count) == count + 1

\* the value of the map object of identity id
Deref(id) ==
    IF id = in_obj THEN in_dict
    ELSE IF id = out_obj THEN out_dict
    ELSE heap[id]

\* lines 102-112: the body of __call__(cfg) up to the for loop; a raising
\* classifier ends the call.  The assignments of lines 108-109 bind the
\* fields to new map objects; the objects named before keep their value.
CallBody(g) ==
    /\ cfg' = g
    /\ calls' = calls + 1
    /\ IF classify_raises(g)
       THEN /\ pc' = "error"
            /\ ret' = IndexError
            /\ UNCHANGED <<all_defs, gen_dict, kill_dict, in_dict, out_dict,
                           visited, worklist, cursor, in_obj, out_obj, heap, pushes>>
       ELSE /\ pc' = "seed"
            /\ gen_dict' = build_gen(analysis, g)
            /\ kill_dict' = build_kill(g, build_defs(g), build_gen(analysis, g))
            /\ all_defs' = defs_after_kill(g, build_defs(g), build_gen(analysis, g))
            /\ in_obj' = alloc(in_obj, 2 * calls)
            /\ out_obj' = alloc(out_obj, 2 * calls + 1)
            /\ heap' = [id \in ((DOMAIN heap) \cup {in_obj, out_obj})
                                  \ {0, in_obj', out_obj'} |-> Deref(id)]
            /\ in_dict' = EmptyDict
            /\ out_dict' = EmptyDict
            /\ visited' = {}
            /\ worklist' = <<>>
            /\ cursor' = 1
            /\ pushes' = [n \in AllNodes |-> 0]
            /\ UNCHANGED ret
    /\ UNCHANGED analysis

\* the first call on a constructed object
CallOn(g) ==
    /\ pc = "start"
    /\ CallBody(g)

\* the caller passes any CFG of the explored family
Call ==
    /\ pc = "start"
    /\ \E kind \in [CtlNodes -> Kinds], E \in EdgeSets : CallOn(make_cfg(kind, E))

\* line 113 with lines 135-140 / 170-175: the generator yields its next
\* boundary node
Seed ==
    /\ pc = "seed"
    /\ next_boundary(analysis, cfg, cursor) # 0
    /\ \E i \in {next_boundary(analysis, cfg, cursor)} :
          /\ \E s \in {pre_loop_init(analysis, Fields, get_node_ids(cfg)[i])} :
                SetFields(s)
          /\ cursor' = i + 1
          /\ pushes' = [n \in AllNodes |-> IF n = get_node_ids(cfg)[i] THEN 1 ELSE 0]
    /\ pc' = "loop"
    /\ UNCHANGED <<cfg, analysis, all_defs, ret, calls, in_obj, out_obj, heap>>

\* the nodes line 122 appended in an iteration that turned worklist w into v:
\* one position was popped, the appended nodes follow the rest
appended(w, v) == SubSeq(v, Len(w), Len(v))

\* the append counts are kept up to this value, which is larger than one
\* plus the number of facts of any explored CFG
PushCap == NumNodes + 2

\* the append counts after an iteration that turned worklist w into v
pushes_after(w, v) ==
    [n \in AllNodes |->
        LET c == pushes[n]
                 + Cardinality({k \in 1..Len(appended(w, v)) : appended(w, v)[k] = n})
        IN IF c > PushCap THEN PushCap ELSE c]

\* lines 114-123: one iteration of the while loop; an empty worklist gives
\* control back to the generator
Step ==
    /\ pc = "loop"
    /\ worklist # <<>>
    /\ \E s \in {loop_iteration(analysis, cfg, Fields, Len(worklist))} :
          SetFields(s)
    /\ pc' = IF worklist' = <<>> THEN "seed" ELSE "loop"
    /\ pushes' = pushes_after(worklist, worklist')
    /\ UNCHANGED <<cfg, analysis, all_defs, cursor, ret, calls, in_obj, out_obj, heap>>

\* line 125: the generator is exhausted and the maps are returned: the
\* caller gets the two map objects themselves (their identities; in_dict and
\* out_dict of ret record the values they have at the return)
Return ==
    /\ pc = "seed"
    /\ next_boundary(analysis, cfg, cursor) = 0
    /\ pc' = "done"
    /\ ret' = [in_dict |-> in_dict, out_dict |-> out_dict,
               in_id |-> in_obj, out_id |-> out_obj]
    /\ UNCHANGED <<cfg, analysis, all_defs, gen_dict, kill_dict, in_dict, out_dict,
                   visited, worklist, cursor, calls, in_obj, out_obj, heap, pushes>>

Next == Call \/ Seed \/ Step \/ Return

Spec == Init /\ [][Next]_vars

\* a call that was made keeps running: a single thread executes it to its
\* end, nothing suspends it
Run == Seed \/ Step \/ Return

FairSpec == Spec /\ WF_vars(Run)

\* ------------------------------------------------------------------------
\* The driver with any pending node popped (the worklist order of the
\* order-independence property): list.pop(i) for any position i
\* ------------------------------------------------------------------------

StepAny ==
    /\ pc = "loop"
    /\ worklist # <<>>
    /\ \E i \in 1..Len(worklist) :
          \E s \in {loop_iteration(analysis, cfg, Fields, i)} : SetFields(s)
    /\ pc' = IF worklist' = <<>> THEN "seed" ELSE "loop"
    /\ pushes' = pushes_after(worklist, worklist')
    /\ UNCHANGED <<cfg, analysis, all_defs, cursor, ret, calls, in_obj, out_obj, heap>>

OrderNext == Call \/ Seed \/ StepAny \/ Return

OrderSpec == Init /\ [][OrderNext]_vars

\* ------------------------------------------------------------------------
\* Calls on one object, one after the other: the CFGs of these calls are
\* rings over the control-flow nodes, of any node kinds
\* ------------------------------------------------------------------------

\* the edges n -> n + 1 and the edge back to node 1
RingEdges == {<<n, (n % NumNodes) + 1>> : n \in CtlNodes}

ReuseCFGs == {make_cfg(kind, RingEdges) : kind \in [CtlNodes -> Kinds]}

\* line 101: the object is called, for the first time or after a return
ReuseCall ==
    /\ pc \in {"start", "done"}
    /\ calls < MaxCalls
    /\ \E g \in ReuseCFGs : CallBody(g)

ReuseNext == ReuseCall \/ Seed \/ Step \/ Return

ReuseSpec == Init /\ [][ReuseNext]_vars

\* lines 114-123 as a function: the while loop run to the empty worklist
RECURSIVE run_while(_, _, _)
run_while(a, g, s) ==
    IF s.worklist = <<>> THEN s
    ELSE CHOOSE r \in {run_while(a, g, t) :
                          t \in {loop_iteration(a, g, s, Len(s.worklist))}} : TRUE

\* lines 113-123 as a function: the for loop over the generator, from cursor
RECURSIVE run_for(_, _, _, _)
run_for(a, g, s, c) ==
    LET i == next_boundary(a, g, c)
    IN IF i = 0 THEN s
       ELSE CHOOSE r \in {run_for(a, g, t, i + 1) :
                             t \in {run_while(a, g, pre_loop_init(a, s, get_node_ids(g)[i]))}} :
                   TRUE

\* __call__ as a function of the analysis and the CFG (a CFG that classifies)
call(a, g) ==
    run_for(a, g,
            [in_dict |-> EmptyDict, out_dict |-> EmptyDict,
             gen_dict |-> build_gen(a, g),
             kill_dict |-> build_kill(g, build_defs(g), build_gen(a, g)),
             visited |-> {}, worklist |-> <<>>],
            1)

\* ------------------------------------------------------------------------
\* The classifier called on its own: node 1 is a Variable node whose first
\* child, grandchild and parent are present or not and carry any tag
\* ------------------------------------------------------------------------

ChildTags == {"ValueParameter", "BinOP", "Literal"}

Images == {"=", "+"}

GrandChildTags == {"OptValueParameter", "Literal"}

ParentTags == {"Global", "FieldMemberDeclaration", "MemberDeclaration", "Block"}

\* nch children of node 1 (ChildNode first), the first one with ngc children
\* (GrandChildNode), and npa parents (ParentNode)
make_context(nch, ctag, cimg, ngc, gtag, npa, ptag) ==
    [type |-> [n \in AllNodes |->
                 IF n = 1 THEN "Variable"
                 ELSE IF n = ChildNode THEN ctag
                 ELSE IF n = GrandChildNode THEN gtag
                 ELSE IF n = ParentNode THEN ptag
                 ELSE IF n = OtherChildNode THEN "ValueParameter"
                 ELSE "Block"],
     image |-> [n \in AllNodes |-> IF n = ChildNode THEN cimg ELSE ""],
     children |-> [n \in AllNodes |->
                 IF n = 1 THEN SubSeq(<<ChildNode, OtherChildNode>>, 1, nch)
                 ELSE IF n = ChildNode THEN SubSeq(<<GrandChildNode>>, 1, ngc)
                 ELSE <<>>],
     parents |-> [n \in AllNodes |->
                 IF n = 1 THEN SubSeq(<<ParentNode>>, 1, npa) ELSE <<>>],
     succ |-> [n \in AllNodes |-> {}],
     var_scope |-> [n \in AllNodes |-> IF n = 1 THEN "global" ELSE ""],
     var_id |-> [n \in AllNodes |-> IF n = 1 THEN "x" ELSE ""]]

ClassifierCFGs ==
    {make_context(nch, ctag, cimg, ngc, gtag, npa, ptag) :
        nch \in 0..2, ctag \in ChildTags, cimg \in Images, ngc \in 0..1,
        gtag \in GrandChildTags, npa \in 0..1, ptag \in ParentTags}

ClassifierInit ==
    /\ cfg = NoCfg
    /\ analysis = PRD
    /\ NoCall

\* is_definition(g, 1) called by itself on any context of node 1
CallIsDefinition ==
    /\ pc = "start"
    /\ \E g \in ClassifierCFGs :
          /\ cfg' = g
          /\ ret' = is_definition(g, 1)
    /\ pc' = "returned"
    /\ UNCHANGED <<analysis, all_defs, gen_dict, kill_dict, in_dict, out_dict,
                   visited, worklist, cursor, calls, in_obj, out_obj, heap, pushes>>

ClassifierNext == CallIsDefinition

ClassifierSpec == ClassifierInit /\ [][ClassifierNext]_vars

\* ------------------------------------------------------------------------
\* Vocabulary of the properties
\* ------------------------------------------------------------------------

\* the boundary nodes of the running analysis: the Entry-typed nodes of the
\* forward analysis, the Exit-typed nodes of the backward one
BoundaryNodes ==
    {n \in AllNodes : cfg.type[n] = (IF analysis = PRD THEN "Entry" ELSE "Exit")}

\* the neighbours the running analysis walks to from n
Neighbours(n) ==
    IF analysis = PRD THEN cfg.succ[n] ELSE {m \in AllNodes : n \in cfg.succ[m]}

\* the nodes reachable from S in zero or more steps of the analysis direction
RECURSIVE ReachableFrom(_)
ReachableFrom(S) ==
    LET T == S \cup UNION {Neighbours(n) : n \in S}
    IN IF T = S THEN S ELSE ReachableFrom(T)

\* the end nodes of the control-flow paths that start with an edge into a
\* node of R and pass through no node of B afterwards
RECURSIVE ClearPaths(_, _)
ClearPaths(R, B) ==
    LET T == R \cup UNION {cfg.succ[v] : v \in R \ B}
    IN IF T = R THEN R ELSE ClearPaths(T, B)

\* the nodes n with a control-flow path from -> v1 -> ... -> n, of one edge
\* at least, on which no inner node v1.. is in B
ClearTargets(from, B) == ClearPaths(cfg.succ[from], B)

\* the definition nodes of the variable key of node v
DefsOfKeyOf(v) ==
    {d \in yield_all_defs(cfg) :
        cfg.var_scope[d] = cfg.var_scope[v] /\ cfg.var_id[d] = cfg.var_id[v]}

\* the flow equation at node n, on the maps of the state
FlowEqAt(n) ==
    IF analysis = PRD
    THEN Get(out_dict, n) = Get(gen_dict, n) \cup (Get(in_dict, n) \ Get(kill_dict, n))
    ELSE Get(in_dict, n) = Get(gen_dict, n) \cup (Get(out_dict, n) \ Get(kill_dict, n))

\* ------------------------------------------------------------------------
\* C1
\* ------------------------------------------------------------------------

\* C1: on every CFG, with cycles and self-loops or not, a call reaches the
\* state where every boundary node has been seeded and the worklist is
\* empty, and returns (in, out).
C1_Terminates ==
    (pc # "start") ~> (pc = "done" /\ worklist = <<>> /\ BoundaryNodes \subseteq visited)

\* a returned forward run over a self-loop on a definition node, which the
\* loop pushed again after its first visit
C1_Witness ==
    /\ pc = "done"
    /\ analysis = PRD
    /\ \E d \in visited : d \in cfg.succ[d] /\ d \in Get(in_dict, d)

\* ------------------------------------------------------------------------
\* C2
\* ------------------------------------------------------------------------

\* C2 as stated: at return the flow equation holds at every node id of the
\* CFG, a node missing from a map counting as the empty set.
C2_FlowEqEveryNode == pc = "done" => \A n \in AllNodes : FlowEqAt(n)

\* C2 amended: at return the flow equation holds at every visited node, and
\* an unvisited node has in[n] and out[n] empty, so that the equation fails
\* exactly at the unvisited nodes with a non-empty gen.
C2_FlowEqVisited ==
    pc = "done" =>
        \A n \in AllNodes :
            /\ n \in visited => FlowEqAt(n)
            /\ n \notin visited =>
                  /\ Get(in_dict, n) = {}
                  /\ Get(out_dict, n) = {}
                  /\ (FlowEqAt(n) <=> Get(gen_dict, n) = {})

\* a returned forward run in which the kill set of a visited node removed
\* a fact that had reached it
C2_Witness ==
    /\ pc = "done"
    /\ analysis = PRD
    /\ \E n \in visited : Get(in_dict, n) \cap Get(kill_dict, n) # {}

\* ------------------------------------------------------------------------
\* C3
\* ------------------------------------------------------------------------

\* C3: in every step, in[n] and out[n] of every node n only grow.
C3_Monotone ==
    [][\A n \in AllNodes :
          /\ Get(in_dict, n) \subseteq Get(in_dict', n)
          /\ Get(out_dict, n) \subseteq Get(out_dict', n)]_vars

\* ------------------------------------------------------------------------
\* C4
\* ------------------------------------------------------------------------

\* C4: whichever pending node each iteration pops, the maps at return are
\* the maps the last-in-first-out run of the code returns.
C4_OrderIndependent ==
    pc = "done" =>
        /\ in_dict = call(analysis, cfg).in_dict
        /\ out_dict = call(analysis, cfg).out_dict

\* a returned run whose first boundary node pushed two other nodes in its
\* first iteration, so that a choice of the node to pop was open, and which
\* returned non-empty facts
C4_Witness ==
    /\ pc = "done"
    /\ \E e \in BoundaryNodes :
          /\ \A b \in BoundaryNodes : e <= b
          /\ Cardinality(Neighbours(e) \ {e}) >= 2
    /\ \E n \in visited : Get(in_dict, n) # {} /\ Get(out_dict, n) # {}

\* ------------------------------------------------------------------------
\* C5
\* ------------------------------------------------------------------------

\* no Entry node has a control-flow predecessor
EntriesHaveNoPredecessor ==
    \A e \in AllNodes : cfg.type[e] = "Entry" => \A m \in AllNodes : e \notin cfg.succ[m]

\* C5: on a CFG whose Entry nodes have no predecessor, at return of the
\* forward analysis a definition node d is in in[n] exactly when d is
\* reachable from an Entry node and a path d -> ... -> n of one edge at least
\* has no inner node that is another definition of d's variable key.
C5_ReachingDefinitions ==
    (pc = "done" /\ analysis = PRD /\ EntriesHaveNoPredecessor) =>
        \A n \in AllNodes : \A d \in yield_all_defs(cfg) :
            d \in Get(in_dict, n) <=>
                /\ d \in ReachableFrom(BoundaryNodes)
                /\ n \in ClearTargets(d, DefsOfKeyOf(d) \ {d})

\* a returned forward run in which a definition reaches one node and is cut
\* off, by another definition of its variable, from a node its paths lead to
C5_Witness ==
    /\ pc = "done"
    /\ analysis = PRD
    /\ EntriesHaveNoPredecessor
    /\ \E d \in yield_all_defs(cfg) :
          /\ \E n \in AllNodes : d \in Get(in_dict, n)
          /\ \E n \in ClearTargets(d, {}) :
                d \in ReachableFrom(BoundaryNodes) /\ d \notin Get(in_dict, n)

\* ------------------------------------------------------------------------
\* C6
\* ------------------------------------------------------------------------

\* C6: at return of the backward analysis a reference node r is in out[n]
\* only if a control-flow path leads from n to r on which no node strictly
\* between n and r is a definition of r's variable key.
C6_ReachableReferences ==
    (pc = "done" /\ analysis = PRR) =>
        \A n \in AllNodes : \A r \in yield_all_refs(cfg) :
            r \in Get(out_dict, n) =>
                (n = r \/ r \in ClearTargets(n, DefsOfKeyOf(r)))

\* ------------------------------------------------------------------------
\* C7
\* ------------------------------------------------------------------------

\* C7: after build_kill of the forward analysis, kill[d] of every definition
\* node d holds every other definition node of d's variable key, and never d.
C7_KillComplete ==
    (pc \in {"seed", "loop", "done"} /\ analysis = PRD) =>
        \A d \in yield_all_defs(cfg) :
            /\ (DefsOfKeyOf(d) \ {d}) \subseteq Get(kill_dict, d)
            /\ d \notin Get(kill_dict, d)

\* the forward analysis has built the kill sets of two definitions of one
\* variable and of a definition of another variable
C7_Witness ==
    /\ pc = "seed"
    /\ analysis = PRD
    /\ \E d \in yield_all_defs(cfg) : Get(kill_dict, d) # {}
    /\ \E d \in yield_all_defs(cfg) : DefsOfKeyOf(d) = {d}

\* ------------------------------------------------------------------------
\* C8
\* ------------------------------------------------------------------------

\* C8 as stated: each returned map has an entry for every node id of the CFG.
C8_EntryForEveryNode ==
    pc = "done" => (DOMAIN ret.in_dict = AllNodes /\ DOMAIN ret.out_dict = AllNodes)

\* C8 amended: each returned map has an entry for exactly the nodes reachable
\* from a boundary node along the analysis direction; any other node has no
\* entry, and a lookup of it yields the empty set by the map's default.
C8_EntryForReachedNodes ==
    pc = "done" =>
        /\ DOMAIN ret.in_dict = ReachableFrom(BoundaryNodes)
        /\ DOMAIN ret.out_dict = ReachableFrom(BoundaryNodes)
        /\ \A n \in AllNodes \ ReachableFrom(BoundaryNodes) :
              Get(ret.in_dict, n) = {} /\ Get(ret.out_dict, n) = {}

\* a returned run that reached two nodes and left a control-flow node out
C8_Witness ==
    /\ pc = "done"
    /\ Cardinality(DOMAIN ret.in_dict) >= 2
    /\ CtlNodes \ DOMAIN ret.in_dict # {}
    /\ CtlNodes \ DOMAIN ret.out_dict # {}

\* ------------------------------------------------------------------------
\* C9
\* ------------------------------------------------------------------------

\* C9: on a CFG without boundary node (no Entry node for the forward
\* analysis, no Exit node for the backward one) the call raises nothing,
\* never pushes a node, can only return, and in[n] and out[n] are empty for
\* every node n.
C9_NoBoundaryNode ==
    (pc # "start" /\ BoundaryNodes = {}) =>
        /\ pc \in {"seed", "done"}
        /\ pc = "seed" => next_boundary(analysis, cfg, cursor) = 0
        /\ worklist = <<>>
        /\ visited = {}
        /\ \A n \in AllNodes : Get(in_dict, n) = {} /\ Get(out_dict, n) = {}
        /\ pc = "done" =>
              \A n \in AllNodes : Get(ret.in_dict, n) = {} /\ Get(ret.out_dict, n) = {}

\* the forward analysis has returned on a CFG with an Exit node, an edge and
\* a definition, and no Entry node
C9_Witness ==
    /\ pc = "done"
    /\ analysis = PRD
    /\ BoundaryNodes = {}
    /\ \E n \in AllNodes : cfg.type[n] = "Exit"
    /\ \E n \in AllNodes : cfg.succ[n] # {}
    /\ yield_all_defs(cfg) # {}

\* ------------------------------------------------------------------------
\* C10
\* ------------------------------------------------------------------------

\* C10: is_definition of a Variable node without parent returns false,
\* whatever the children of the node are.  Stated for the nodes that have a
\* first child with a child of its own, where the parent alone is missing.
C10_NoParentIsNoDefinition ==
    (/\ pc = "returned"
     /\ Len(cfg.parents[1]) = 0
     /\ Len(cfg.children[1]) > 0
     /\ Len(cfg.children[ChildNode]) > 0) => ret = "False"

\* ------------------------------------------------------------------------
\* C11
\* ------------------------------------------------------------------------

\* C11: is_definition of a Variable node whose first parent carries a type
\* tag containing "MemberDeclaration" returns true, whatever the children of
\* the node are, also when the node has no child or its first child has none.
C11_MemberDeclarationIsDefinition ==
    (/\ pc = "returned"
     /\ Len(cfg.parents[1]) > 0
     /\ contains_MemberDeclaration(cfg.type[cfg.parents[1][1]])) => ret = "True"

\* ------------------------------------------------------------------------
\* C12
\* ------------------------------------------------------------------------

\* C12: every call on an object, the first or a later one, returns the maps
\* a call on a fresh object returns for the same CFG, and while a later call
\* runs, the two map objects the call before returned keep the values they
\* had when they were returned.
C12_NoStateCrossesCalls ==
    /\ pc = "done" =>
          /\ ret.in_dict = call(analysis, cfg).in_dict
          /\ ret.out_dict = call(analysis, cfg).out_dict
    /\ (calls >= 2 /\ pc \in {"seed", "loop"}) =>
          /\ Deref(ret.in_id) = ret.in_dict
          /\ Deref(ret.out_id) = ret.out_dict

\* a second call has returned facts, and the maps of the first call, which
\* self no longer names, hold facts and differ from the maps of the second
C12_Witness ==
    /\ calls = 2
    /\ pc = "done"
    /\ \E n \in visited : Get(ret.in_dict, n) # {}
    /\ \E id \in DOMAIN heap :
          /\ heap[id] \notin {ret.in_dict, ret.out_dict}
          /\ \E n \in DOMAIN heap[id] : heap[id][n] # {}

\* ------------------------------------------------------------------------
\* C13
\* ------------------------------------------------------------------------

\* C13: at return of the forward analysis, on any CFG, out[p] is a subset of
\* in[m] for every control-flow edge p -> m whose source p is reachable from
\* an Entry node.
C13_MergeComplete ==
    (pc = "done" /\ analysis = PRD) =>
        \A p \in ReachableFrom(BoundaryNodes) : \A m \in cfg.succ[p] :
            Get(out_dict, p) \subseteq Get(in_dict, m)

\* ------------------------------------------------------------------------
\* C14
\* ------------------------------------------------------------------------

\* C14: whenever the convergence loop is about to pop a node, every boundary
\* node has been seeded already: the generator has passed it, it is marked
\* visited and its home slot has an entry.
C14_AllSeededBeforeFirstPop ==
    pc = "loop" =>
        \A b \in BoundaryNodes :
            /\ b < cursor
            /\ b \in visited
            /\ b \in DOMAIN (IF analysis = PRD THEN in_dict ELSE out_dict)

\* ------------------------------------------------------------------------
\* C15
\* ------------------------------------------------------------------------

\* C15: in every state of a call, every element of every in[n] and out[n] is
\* a definition node in the forward analysis and a reference node (a
\* Variable node that is_definition classifies as false) in the backward one.
C15_FactTyping ==
    pc # "start" =>
        \A n \in (DOMAIN in_dict) \cup (DOMAIN out_dict) :
            Get(in_dict, n) \cup Get(out_dict, n) \subseteq
                (IF analysis = PRD THEN yield_all_defs(cfg) ELSE yield_all_refs(cfg))

\* the backward analysis is running on a CFG with a definition and a
\* reference, and facts have reached the out set of a definition node
C15_Witness ==
    /\ pc = "loop"
    /\ analysis = PRR
    /\ yield_all_refs(cfg) # {}
    /\ \E d \in yield_all_defs(cfg) : Get(out_dict, d) # {}

\* ------------------------------------------------------------------------
\* C16
\* ------------------------------------------------------------------------

\* C16: at return, visited is exactly the set of nodes reachable in zero or
\* more steps from a boundary node along the analysis direction, and in
\* every state every node on the worklist is in visited.
C16_VisitedIsReachable ==
    /\ pc = "done" => visited = ReachableFrom(BoundaryNodes)
    /\ \A k \in 1..Len(worklist) : worklist[k] \in visited

\* a returned run that visited a boundary node and a node beyond it, and
\* left a control-flow node unvisited
C16_Witness ==
    /\ pc = "done"
    /\ visited \ BoundaryNodes # {}
    /\ CtlNodes \ visited # {}

\* ------------------------------------------------------------------------
\* C17
\* ------------------------------------------------------------------------

\* the kill sets of the backward analysis cannot remove a fact of out
KillRemovesNothing ==
    (analysis = PRR /\ pc # "start") =>
        \A n \in AllNodes :
            /\ Get(kill_dict, n) \cap Get(out_dict, n) = {}
            /\ Get(kill_dict, n) \subseteq yield_all_defs(cfg)
            /\ Get(out_dict, n) \subseteq yield_all_refs(cfg)
            /\ n \in yield_all_defs(cfg) =>
                  (Get(gen_dict, n) = {} /\ Get(kill_dict, n) = {})

\* C17: in every state of the backward analysis kill[n] is disjoint from
\* out[n] for every node n (kill sets hold definition nodes only, fact sets
\* reference nodes only, definition nodes have empty gen and kill), and every
\* iteration of the loop leaves in[n] = gen[n] \cup out[n] at the node n it
\* popped.
C17_KillNeverRemoves ==
    /\ []KillRemovesNothing
    /\ [][(analysis = PRR /\ pc = "loop") =>
            LET nid == worklist[Len(worklist)]
            IN Get(in_dict', nid) = Get(gen_dict, nid) \cup Get(out_dict, nid)]_vars

\* the backward analysis has a reference node with a non-empty kill set and
\* a non-empty out set
C17_Witness ==
    /\ analysis = PRR
    /\ pc \in {"loop", "seed", "done"}
    /\ \E n \in visited : Get(kill_dict, n) # {} /\ Get(out_dict, n) # {}

\* ------------------------------------------------------------------------
\* C18
\* ------------------------------------------------------------------------

\* the facts of the running analysis
Facts == IF analysis = PRD THEN yield_all_defs(cfg) ELSE yield_all_refs(cfg)

\* C18: an iteration of the loop that pushes a neighbour m visited before
\* strictly enlarges the near slot of m (in[m] forward, out[m] backward), and
\* between two seedings a node is pushed at most 1 + (number of facts) times.
C18_RequeueOnlyOnChange ==
    /\ [](\A n \in AllNodes : pushes[n] <= 1 + Cardinality(Facts))
    /\ [][pc = "loop" =>
            \A k \in 1..Len(appended(worklist, worklist')) :
                LET m == appended(worklist, worklist')[k]
                    near == IF analysis = PRD THEN Get(in_dict, m) ELSE Get(out_dict, m)
                    near_after == IF analysis = PRD THEN Get(in_dict', m)
                                  ELSE Get(out_dict', m)
                IN m \in visited => (near \subseteq near_after /\ near # near_after)]_vars

\* the loop has pushed a node again after its first push since the seeding
C18_Witness ==
    /\ pc = "loop"
    /\ \E n \in visited : pushes[n] >= 2 /\ n \notin BoundaryNodes

\* ------------------------------------------------------------------------
\* The pattern-parameterized variant of src/src/ptfa.py: PossiblyDataFlow
\* with its subclasses PossiblyReachingDataFlow (forward) and
\* PossiblyReachableDataFlow (backward).  A Python value stored in a map is a
\* record: t is its type, v the elements of a set or the number of an int.
\* ------------------------------------------------------------------------

PtfaReaching == "PossiblyReachingDataFlow"

PtfaReachable == "PossiblyReachableDataFlow"

\* set(...)
PySet(S) == [t |-> "set", v |-> S]

\* False
PyFalse == [t |-> "bool", v |-> {}]

\* an int
PyInt(k) == [t |-> "int", v |-> {k}]

\* the exception of recv.method(arg) for a set method (union, difference):
\* the attribute lookup fails on a value that is no set, the call on an
\* argument that is not iterable; "" when nothing is raised
method_raises(recv, arg) ==
    IF recv.t # "set" THEN "AttributeError"
    ELSE IF arg.t # "set" THEN "TypeError"
    ELSE ""

\* True when the loop of lines 54-59 raises: get_children(i)[0] at line 56 on
\* an assignment node without child
ptfa_setup_raises(g) ==
    \E i \in AllNodes :
        get_type(g, i) = "BinOp" /\ get_image(g, i) = "=" /\ Len(get_children(g, i)) = 0

\* line 51: gen_dict maps a node id to the id itself
ptfa_gen_dict(g) ==
    [k \in {k \in AllNodes : get_type(g, k) # "BinOp" /\ get_image(g, k) # "="} |-> PyInt(k)]

\* lines 52-59: kill_dict[j] holds the other assignments to the variable
\* that assignment j writes
ptfa_kill_dict(g) ==
    [j \in AllNodes |->
        PySet({i \in AllNodes \ {j} :
                 /\ get_type(g, i) = "BinOp" /\ get_image(g, i) = "="
                 /\ get_type(g, j) = "BinOp" /\ get_image(g, j) = "="
                 /\ get_image(g, get_children(g, j)[1]) = get_image(g, get_children(g, i)[1])})]

\* check_node that takes a value that is no set for the empty set
ptfa_check_node_lenient(a, s, nid) ==
    LET val(d) == IF nid \in DOMAIN d /\ d[nid].t = "set" THEN d[nid].v ELSE {}
        near == IF a = PtfaReaching THEN s.in_dict ELSE s.out_dict
        res == PySet(val(s.gen_dict) \cup (val(near) \ val(s.kill_dict)))
    IN IF a = PtfaReaching
       THEN [s EXCEPT !.out_dict = Put(@, nid, res)]
       ELSE [s EXCEPT !.in_dict = Put(@, nid, res)]

\* check_node (lines 91-92, 118-119): gen_dict[nid] is looked up first, then
\* its attribute union, then the argument is evaluated, then the slot is set
ptfa_check_node(a, s, nid) ==
    LET near == IF a = PtfaReaching THEN s.in_dict ELSE s.out_dict
    IN IF nid \notin DOMAIN s.gen_dict THEN [s EXCEPT !.raised = "KeyError"]
       ELSE IF s.gen_dict[nid].t # "set" THEN [s EXCEPT !.raised = "AttributeError"]
       ELSE IF method_raises(near[nid], s.kill_dict[nid]) # ""
            THEN [s EXCEPT !.raised = method_raises(near[nid], s.kill_dict[nid])]
       ELSE LET res == PySet(s.gen_dict[nid].v \cup (near[nid].v \ s.kill_dict[nid].v))
            IN IF a = PtfaReaching
               THEN [s EXCEPT !.out_dict = Put(@, nid, res)]
               ELSE [s EXCEPT !.in_dict = Put(@, nid, res)]

\* the receiver of the set methods of can_propagate (lines 98, 125)
ptfa_can_recv(a, s, nid, next_nid) ==
    IF a = PtfaReaching THEN s.out_dict[next_nid] ELSE s.in_dict[next_nid]

\* the argument of the set methods of can_propagate
ptfa_can_arg(a, s, nid, next_nid) ==
    IF a = PtfaReaching THEN s.in_dict[nid] ELSE s.out_dict[nid]

\* can_propagate (lines 97-98, 124-125), when it raises nothing
ptfa_can_propagate(a, s, nid, next_nid) ==
    (ptfa_can_recv(a, s, nid, next_nid).v \ ptfa_can_arg(a, s, nid, next_nid).v) # {}

\* propagate (lines 100-101, 127-128): the slot of the current node takes
\* the union with the slot of the neighbour
ptfa_propagate(a, s, nid, next_nid) ==
    LET recv == ptfa_can_arg(a, s, nid, next_nid)
        arg == ptfa_can_recv(a, s, nid, next_nid)
    IN IF method_raises(recv, arg) # "" THEN [s EXCEPT !.raised = method_raises(recv, arg)]
       ELSE IF a = PtfaReaching
            THEN [s EXCEPT !.in_dict = Put(@, nid, PySet(recv.v \cup arg.v))]
            ELSE [s EXCEPT !.out_dict = Put(@, nid, PySet(recv.v \cup arg.v))]

\* lines 66-72: one iteration of the for loop; can_propagate is evaluated
\* before the visited test
ptfa_visit_next(a, s, nid, next_nid) ==
    LET raises == method_raises(ptfa_can_recv(a, s, nid, next_nid),
                                ptfa_can_arg(a, s, nid, next_nid))
        push(t) == IF t.raised # "" THEN t
                   ELSE [t EXCEPT !.worklist = Append(@, next_nid),
                                  !.visited = @ \cup {next_nid}]
    IN IF raises # "" THEN [s EXCEPT !.raised = raises]
       ELSE IF ptfa_can_propagate(a, s, nid, next_nid) \/ next_nid \notin s.visited
            THEN push(ptfa_propagate(a, s, nid, next_nid))
            ELSE s

\* lines 65-72: the for loop from position i of the neighbour list, left by
\* an exception
RECURSIVE ptfa_for_next(_, _, _, _, _)
ptfa_for_next(a, s, nid, nexts, i) ==
    IF i > Len(nexts) \/ s.raised # "" THEN s
    ELSE CHOOSE r \in {ptfa_for_next(a, t, nid, nexts, i + 1) :
                          t \in {ptfa_visit_next(a, s, nid, nexts[i])}} : TRUE

\* lines 63-72: one iteration of the while loop
ptfa_loop_iteration(a, g, s) ==
    LET nid == s.worklist[Len(s.worklist)]
        popped == [s EXCEPT !.worklist = SubSeq(@, 1, Len(@) - 1)]
        nexts == IF a = PtfaReaching THEN get_any_children(g, nid)
                 ELSE get_any_parents(g, nid)
    IN CHOOSE r \in {ptfa_for_next(a, t, nid, nexts, 1) :
                        t \in {ptfa_check_node(a, popped, nid)}} : TRUE

\* pre_loop_init up to its yield (lines 84-89, 111-116): the slot of the
\* boundary node is set to False
ptfa_pre_loop_init(a, s, nid) ==
    IF a = PtfaReaching
    THEN [s EXCEPT !.in_dict = Put(@, nid, PyFalse),
                   !.visited = @ \cup {nid},
                   !.worklist = Append(@, nid)]
    ELSE [s EXCEPT !.out_dict = Put(@, nid, PyFalse),
                   !.visited = @ \cup {nid},
                   !.worklist = Append(@, nid)]

\* get_entry_node / get_exit_node (lines 78-82, 105-109) resumed at position
\* cursor: the index of the next boundary node, 0 when there is none
ptfa_next_boundary(a, g, c) ==
    LET ids == get_node_ids(g)
        tag == IF a = PtfaReaching THEN "Entry" ELSE "Exit"
        hits == {i \in c..Len(ids) : get_type(g, ids[i]) = tag}
    IN IF hits = {} THEN 0 ELSE CHOOSE i \in hits : \A j \in hits : i <= j

\* Explored CFGs of the variant: a control-flow node is an Entry node, an
\* Exit node, an assignment to x or to y (a BinOp node of image "=" whose
\* first child is the variable), an assignment node without child, or
\* another statement
PtfaKinds == {"Entry", "Exit", "AssignX", "AssignY", "AssignNoChild", "Other"}

make_ptfa_cfg(kind, E) ==
    [type |-> [n \in AllNodes |->
                 IF n \in CtlNodes
                 THEN (IF kind[n] \in {"Entry", "Exit"} THEN kind[n]
                       ELSE IF kind[n] = "Other" THEN "FunctionCall"
                       ELSE "BinOp")
                 ELSE "Variable"],
     image |-> [n \in AllNodes |->
                 IF n \in CtlNodes
                 THEN (IF kind[n] \in {"AssignX", "AssignY", "AssignNoChild"} THEN "="
                       ELSE "")
                 ELSE IF n = ChildNode THEN "x"
                 ELSE IF n = OtherChildNode THEN "y"
                 ELSE "z"],
     children |-> [n \in AllNodes |->
                 IF n \in CtlNodes /\ kind[n] = "AssignX" THEN <<ChildNode, GrandChildNode>>
                 ELSE IF n \in CtlNodes /\ kind[n] = "AssignY"
                      THEN <<OtherChildNode, GrandChildNode>>
                 ELSE <<>>],
     parents |-> [n \in AllNodes |-> <<>>],
     succ |-> [n \in AllNodes |-> {m \in CtlNodes : <<n, m>> \in E}],
     var_scope |-> [n \in AllNodes |-> ""],
     var_id |-> [n \in AllNodes |-> ""]]

\* the fields the hooks of the variant read and write, and the exception
\* raised ("" for none)
PtfaFields ==
    [in_dict |-> in_dict, out_dict |-> out_dict, gen_dict |-> gen_dict,
     kill_dict |-> kill_dict, visited |-> visited, worklist |-> worklist,
     raised |-> ""]

\* the fields take the values of record s; an exception ends the call
PtfaSetFields(s) ==
    /\ SetFields(s)
    /\ IF s.raised # ""
       THEN pc' = "error" /\ ret' = s.raised
       ELSE pc' = (IF s.worklist = <<>> THEN "seed" ELSE "loop") /\ UNCHANGED ret

\* an object of either class of the variant, constructed and not yet called
PtfaInit ==
    /\ cfg = NoCfg
    /\ analysis \in {PtfaReaching, PtfaReachable}
    /\ NoCall

\* lines 42-59: __call__(cfg) up to the for loop
PtfaCall ==
    /\ pc = "start"
    /\ \E kind \in [CtlNodes -> PtfaKinds], E \in EdgeSets :
          \E g \in {make_ptfa_cfg(kind, E)} :
             /\ cfg' = g
             /\ visited' = {}
             /\ worklist' = <<>>
             /\ in_dict' = [k \in AllNodes |-> PySet({})]
             /\ out_dict' = [k \in AllNodes |-> PySet({})]
             /\ gen_dict' = ptfa_gen_dict(g)
             /\ IF ptfa_setup_raises(g)
                THEN /\ kill_dict' = [k \in AllNodes |-> PySet({})]
                     /\ pc' = "error"
                     /\ ret' = IndexError
                ELSE /\ kill_dict' = ptfa_kill_dict(g)
                     /\ pc' = "seed"
                     /\ UNCHANGED ret
    /\ calls' = calls + 1
    /\ cursor' = 1
    /\ UNCHANGED <<analysis, all_defs, in_obj, out_obj, heap, pushes>>

\* line 61 with lines 84-89 / 111-116: the generator yields its next
\* boundary node
PtfaSeed ==
    /\ pc = "seed"
    /\ ptfa_next_boundary(analysis, cfg, cursor) # 0
    /\ \E i \in {ptfa_next_boundary(analysis, cfg, cursor)} :
          /\ \E s \in {ptfa_pre_loop_init(analysis, PtfaFields, get_node_ids(cfg)[i])} :
                SetFields(s)
          /\ cursor' = i + 1
    /\ pc' = "loop"
    /\ UNCHANGED <<cfg, analysis, all_defs, ret, calls, in_obj, out_obj, heap, pushes>>

\* lines 62-72: one iteration of the while loop
PtfaStep ==
    /\ pc = "loop"
    /\ worklist # <<>>
    /\ \E s \in {ptfa_loop_iteration(analysis, cfg, PtfaFields)} : PtfaSetFields(s)
    /\ UNCHANGED <<cfg, analysis, all_defs, cursor, calls, in_obj, out_obj, heap, pushes>>

\* line 74: the generator is exhausted and the maps are returned
PtfaReturn ==
    /\ pc = "seed"
    /\ ptfa_next_boundary(analysis, cfg, cursor) = 0
    /\ pc' = "done"
    /\ ret' = [in_dict |-> in_dict, out_dict |-> out_dict,
               in_id |-> in_obj, out_id |-> out_obj]
    /\ UNCHANGED <<cfg, analysis, all_defs, gen_dict, kill_dict, in_dict, out_dict,
                   visited, worklist, cursor, calls, in_obj, out_obj, heap, pushes>>

PtfaNext == PtfaCall \/ PtfaSeed \/ PtfaStep \/ PtfaReturn

PtfaSpec == PtfaInit /\ [][PtfaNext]_vars

\* the boundary nodes of the running variant
PtfaBoundaryNodes ==
    {n \in AllNodes : cfg.type[n] = (IF analysis = PtfaReaching THEN "Entry" ELSE "Exit")}

\* ------------------------------------------------------------------------
\* C19
\* ------------------------------------------------------------------------

\* the boundary node of the smallest id
FirstBoundary == CHOOSE b \in PtfaBoundaryNodes : \A c \in PtfaBoundaryNodes : b <= c

\* the home slot of node n: in[n] forward, out[n] backward
HomeSlot(n) == IF analysis = PtfaReaching THEN in_dict[n] ELSE out_dict[n]

\* C19: a call of the variant on a CFG with a boundary node (an Entry node
\* for PossiblyReachingDataFlow, an Exit node for PossiblyReachableDataFlow)
\* never returns: after the first seeding the home slot of the seeded node
\* holds False and gen_dict holds its bare id or nothing, and the first
\* check_node ends the call with an exception.  A call that returns ran on a
\* CFG without boundary node and returns the empty set in every slot.
C19_VariantFailsOnBoundaryNode ==
    /\ pc = "done" =>
          /\ PtfaBoundaryNodes = {}
          /\ \A n \in AllNodes :
                ret.in_dict[n] = PySet({}) /\ ret.out_dict[n] = PySet({})
    /\ (pc # "start" /\ PtfaBoundaryNodes # {}) =>
          /\ pc \in {"seed", "loop", "error"}
          /\ pc = "seed" => visited = {}
    /\ pc = "loop" =>
          /\ worklist = <<FirstBoundary>>
          /\ HomeSlot(FirstBoundary) = PyFalse
          /\ \/ FirstBoundary \notin DOMAIN gen_dict
             \/ gen_dict[FirstBoundary] = PyInt(FirstBoundary)
    /\ (pc = "error" /\ visited # {}) =>
          /\ ret \in {"AttributeError", "KeyError"}
          /\ visited = {FirstBoundary}
          /\ worklist = <<>>
          /\ HomeSlot(FirstBoundary) = PyFalse
    /\ (pc = "error" /\ visited = {}) => ret = IndexError

\* the call of the forward variant on a CFG whose first Entry node has a
\* successor and which holds two assignments to one variable has ended in
\* check_node with AttributeError
C19_Witness ==
    /\ pc = "error"
    /\ analysis = PtfaReaching
    /\ ret = "AttributeError"
    /\ cfg.succ[FirstBoundary] # {}
    /\ \E n \in AllNodes : kill_dict[n].v # {}

====
